---------------------------- MODULE Spec2Model ----------------------------
(***************************************************************************)
(* Model of src/src/lib/gemini.js: the regex extractor fallbackParser and  *)
(* the orchestrating async function parseInput (deterministic fast path,   *)
(* request to the generative API under an abort timer, validation of the   *)
(* response, recovery in the catch block).                                 *)
(*                                                                         *)
(* A text is a sequence of \w+ runs.  A run carries its characters         *)
(* (text), its decimal digits when it is made of digits only (digits,      *)
(* <<>> otherwise) and the kind of separator that follows it: "ws" when    *)
(* only whitespace separates it from the next run, "punct" when the        *)
(* separator holds a character that is neither \w nor \s.                  *)
(*                                                                         *)
(* A JavaScript number is a record [nan, n, d] standing for n/d, or NaN.   *)
(***************************************************************************)
EXTENDS Integers, Sequences, FiniteSets, TLC

VARIABLES text, config, pc, fallbackResult, fallbackRuns, apiRequests,
          timerArmed, aborted, body, lastError, outcome

\* processExpense (src/api/telegram.js) over the Redis document of one chat:
\* stored is the document user:<chatId>, stored0 its value before the
\* calls; for each call, cpc is its position, parsed the outcome of its
\* parseInput, cfg the catalog it read, userData its local copy of the
\* document, readOk and saved the outcomes of its Redis commands.
VARIABLES stored, stored0, cpc, parsed, cfg, userData, readOk, saved

expenseVars == <<stored, stored0, cpc, parsed, cfg, userData, readOk, saved>>

parseVars == <<text, config, pc, fallbackResult, fallbackRuns, apiRequests,
               timerArmed, aborted, body, lastError, outcome>>

vars == <<parseVars, expenseVars>>

-----------------------------------------------------------------------------
(* Bounds of the model *)

MaxTokens == 3

MaxEntries == 2

MaxStored == 1

-----------------------------------------------------------------------------
(* JavaScript numbers *)

Num(n, d) == [nan |-> FALSE, n |-> n, d |-> d]

NaN == [nan |-> TRUE, n |-> 0, d |-> 1]

IsPositive(v) == ~v.nan /\ v.n > 0

IsInteger(v) == ~v.nan /\ v.n % v.d = 0

RECURSIVE Base10(_)
Base10(ds) == IF ds = <<>> THEN 0
              ELSE 10 * Base10(SubSeq(ds, 1, Len(ds) - 1)) + ds[Len(ds)]

\* parseInt(match[1]): NaN for the undefined capture, else the decimal value
parseInt(ds) == IF ds = <<>> THEN NaN ELSE Num(Base10(ds), 1)

-----------------------------------------------------------------------------
(* Inputs *)

Run(t, ds, s) == [text |-> t, digits |-> ds, sep |-> s]

Tokens == { Run("0", <<0>>, "ws"), Run("2", <<2>>, "ws"),
            Run("2", <<2>>, "punct"), Run("03", <<0, 3>>, "ws"),
            Run("chai", <<>>, "ws"), Run("Tea", <<>>, "ws"),
            Run("chips", <<>>, "ws"), Run("pizza", <<>>, "ws") }

Texts == UNION { [1..n -> Tokens] : n \in 0..MaxTokens }

Catalogs == { {}, {"chai", "chips"}, {"chips", "pizza"} }

IsDigits(r) == r.digits # <<>>

-----------------------------------------------------------------------------
(* fallbackParser *)

DefaultItems == {"chai", "chips", "choti", "connect", "samosa"}

validItemsOf(availableItems) ==
    IF Cardinality(availableItems) > 0 THEN availableItems ELSE DefaultItems

itemVariations(item) ==
    CASE item = "tea" -> "chai"
      [] item = "chip" -> "chips"
      [] item = "chais" -> "chai"
      [] item = "samosas" -> "samosa"
      [] OTHER -> item

toLowerCase(s) ==
    CASE s = "Tea" -> "tea"
      [] s = "Chai" -> "chai"
      [] OTHER -> s

\* the literal between the captured number and the word in patterns[p]
Connector(p) == CASE p = 1 -> "" [] p = 2 -> "x" [] p = 3 -> "of"

Match(q, w) == [qty |-> q, word |-> w]

\* text.matchAll(patterns[p]) from run i on: the optional group takes a
\* digit run followed by whitespace only (and, for patterns 2 and 3, the
\* connector run), \w+ takes the whole next run; when the group cannot
\* match, \w+ takes the run itself and nothing is captured.
RECURSIVE matchAll(_, _, _)
matchAll(txt, p, i) ==
    IF i > Len(txt) THEN <<>>
    ELSE IF p = 1 /\ IsDigits(txt[i]) /\ txt[i].sep = "ws" /\ i + 1 <= Len(txt)
         THEN <<Match(txt[i].digits, txt[i + 1].text)>> \o matchAll(txt, p, i + 2)
    ELSE IF p > 1 /\ IsDigits(txt[i]) /\ txt[i].sep = "ws" /\ i + 2 <= Len(txt)
            /\ txt[i + 1].text = Connector(p) /\ txt[i + 1].sep = "ws"
         THEN <<Match(txt[i].digits, txt[i + 2].text)>> \o matchAll(txt, p, i + 3)
    ELSE <<Match(<<>>, txt[i].text)>> \o matchAll(txt, p, i + 1)

Normalize(word) == itemVariations(toLowerCase(word))

AcceptsAlways(item, validItems, foundItems) == item \in validItems

\* line 39: validItems.includes(item) && !foundItems.has(item)
Accepts(item, validItems, foundItems) ==
    item \in validItems /\ item \notin foundItems

ResolveQuantityOr(quantity) ==
    IF quantity.nan \/ quantity.n = 0 THEN [keep |-> TRUE, quantity |-> Num(1, 1)]
    ELSE [keep |-> TRUE, quantity |-> quantity]

\* lines 40-44: default 1 when nothing was captured, skip when <= 0
ResolveQuantity(quantity) ==
    IF quantity.nan THEN [keep |-> TRUE, quantity |-> Num(1, 1)]
    ELSE IF quantity.n <= 0 THEN [keep |-> FALSE, quantity |-> quantity]
    ELSE [keep |-> TRUE, quantity |-> quantity]

\* the loop over matches, lines 29-48
RECURSIVE scanMatches(_, _, _, _, _)
scanMatches(matches, k, validItems, items, foundItems) ==
    IF k > Len(matches) THEN items
    ELSE LET item == Normalize(matches[k].word)
             r == ResolveQuantity(parseInt(matches[k].qty))
         IN IF Accepts(item, validItems, foundItems) /\ r.keep
            THEN scanMatches(matches, k + 1, validItems,
                             Append(items, [item |-> item, quantity |-> r.quantity]),
                             foundItems \cup {item})
            ELSE scanMatches(matches, k + 1, validItems, items, foundItems)

\* the loop over patterns, lines 26-51: the first pattern with a match is used
RECURSIVE tryPatterns(_, _, _)
tryPatterns(txt, p, validItems) ==
    IF p > 3 THEN <<>>
    ELSE LET matches == matchAll(txt, p, 1)
         IN IF Len(matches) > 0
            THEN scanMatches(matches, 1, validItems, <<>>, {})
            ELSE tryPatterns(txt, p + 1, validItems)

fallbackParser(txt, availableItems) ==
    tryPatterns(txt, 1, validItemsOf(availableItems))

-----------------------------------------------------------------------------
(* The response of the generative API *)

Entry(k, i, t, q) == [kind |-> k, item |-> i, qtype |-> t, quantity |-> q]

\* entries of parsed.items: null, a primitive, objects
Entries == { Entry("null", "", "undefined", NaN),
             Entry("prim", "", "undefined", NaN),
             Entry("obj", "chai", "number", Num(2, 1)),
             Entry("obj", "chips", "number", Num(5, 2)),
             Entry("obj", "pizza", "number", Num(1, 1)),
             Entry("obj", "chai", "number", Num(0, 1)),
             Entry("obj", "chai", "string", NaN),
             Entry("obj", "", "number", Num(1, 1)) }

Payload(k, es) == [kind |-> k, items |-> es]

Bodies == { Payload(k, <<>>) : k \in {"badBody", "noContent", "noJson",
                                     "syntaxError", "noItems", "notArray"} }
          \cup { Payload("list", es) :
                   es \in UNION { [1..n -> Entries] : n \in 0..MaxEntries } }

EntryPassesAnyItem(e, availableItems) ==
    e.item # "" /\ e.qtype = "number" /\ IsPositive(e.quantity)

\* line 160
EntryPasses(e, availableItems) ==
    e.item # "" /\ e.qtype = "number" /\ IsPositive(e.quantity)
    /\ e.item \in availableItems

\* lines 158-163; reading item.item of null throws a TypeError
RECURSIVE filterItems(_, _, _)
filterItems(es, k, availableItems) ==
    IF k > Len(es) THEN <<>>
    ELSE IF EntryPasses(es[k], availableItems)
         THEN <<[item |-> es[k].item, quantity |-> es[k].quantity]>>
              \o filterItems(es, k + 1, availableItems)
         ELSE filterItems(es, k + 1, availableItems)

HasNull(es) == \E k \in 1..Len(es) : es[k].kind = "null"

\* the error thrown inside the try block for a response body, "" when none
thrownBy(b) ==
    CASE b.kind = "badBody" -> "invalid json response body"
      [] b.kind = "noContent" -> "No content in Gemini response"
      [] b.kind = "noJson" -> "No JSON found in Gemini output"
      [] b.kind = "syntaxError" -> "SyntaxError"
      [] b.kind = "noItems" -> "Invalid response format from Gemini"
      [] b.kind = "notArray" -> "Invalid response format from Gemini"
      [] b.kind = "list" /\ HasNull(b.items) -> "TypeError"
      [] OTHER -> ""

-----------------------------------------------------------------------------
(* parseInput *)

availableItems == config

NoOutcome == [kind |-> "pending", items |-> <<>>, error |-> ""]

Return(items) == [kind |-> "return", items |-> items, error |-> ""]

Throw(e) == [kind |-> "throw", items |-> <<>>, error |-> e]

ExtractionExhausted == "Failed to parse input with both Gemini and fallback methods"

TerminalErrorRethrown(error) == error

\* line 176
TerminalError(error) == ExtractionExhausted

UseFastPathNever(result) == FALSE

\* line 62
UseFastPath(result) == Len(result) > 0

NoBody == Payload("none", <<>>)

-----------------------------------------------------------------------------
(* processExpense and the Redis helpers it calls *)

Calls == {1, 2}

\* the keys of the chat's document that the calls of the model touch
StoredItems == {"chai", "chips"}

\* the config document written by initializeConfig
DefaultConfig ==
    [chai |-> 10, chips |-> 10, choti |-> 10, connect |-> 15, samosa |-> 15]

\* a document of running totals; 0 stands for an absent key, which the
\* handler reads as (userData[itemLower] || 0)
EmptyDocument == [it \in StoredItems |-> 0]

Documents == [StoredItems -> 0..MaxStored]

\* what parseInput(text) hands to processExpense
ParseOutcomes ==
    { Throw(ExtractionExhausted),
      Return(<<>>),
      Return(<<[item |-> "chai", quantity |-> Num(1, 1)]>>),
      Return(<<[item |-> "chips", quantity |-> Num(2, 1)]>>),
      Return(<<[item |-> "chai", quantity |-> Num(2, 1)],
               [item |-> "chips", quantity |-> Num(1, 1)]>>) }

\* telegram.js line 81: !config[itemLower] is false
KnownItem(itemLower) ==
    itemLower \in DOMAIN DefaultConfig /\ DefaultConfig[itemLower] # 0

\* telegram.js lines 78-90: the loop that adds the parsed quantities to the
\* local copy of the document
RECURSIVE addItems(_, _, _)
addItems(items, k, data) ==
    IF k > Len(items) THEN data
    ELSE LET itemLower == toLowerCase(items[k].item)
         IN IF ~KnownItem(itemLower)
            THEN addItems(items, k + 1, data)
            ELSE addItems(items, k + 1,
                          [data EXCEPT ![itemLower] = @ + items[k].quantity.n])

\* telegram.js line 67: parseInput settles; a throw goes to the catch block
ParseInput(c, r) ==
    /\ cpc[c] = "parseInput"
    /\ parsed' = [parsed EXCEPT ![c] = r]
    /\ cpc' = [cpc EXCEPT ![c] = IF r.kind = "throw" THEN "done"
                                 ELSE "getConfig"]
    /\ UNCHANGED <<stored, stored0, cfg, userData, readOk, saved>>
    /\ UNCHANGED parseVars

\* telegram.js line 70, redis.js getConfig: the document, or undefined when
\* the command fails
GetConfig(c, ok) ==
    /\ cpc[c] = "getConfig"
    /\ cfg' = [cfg EXCEPT ![c] = IF ok THEN "config" ELSE "undefined"]
    /\ cpc' = [cpc EXCEPT ![c] = "getUserData"]
    /\ UNCHANGED <<stored, stored0, parsed, userData, readOk, saved>>
    /\ UNCHANGED parseVars

\* telegram.js lines 73-90, redis.js getUserData: the document is read ({}
\* when the command fails) and the loop updates the local copy; indexing an
\* undefined config throws into the catch block
GetUserData(c, ok) ==
    /\ cpc[c] = "getUserData"
    /\ readOk' = [readOk EXCEPT ![c] = ok]
    /\ LET data == IF ok THEN stored ELSE EmptyDocument
       IN IF cfg[c] = "undefined" /\ Len(parsed[c].items) > 0
          THEN /\ cpc' = [cpc EXCEPT ![c] = "done"]
               /\ userData' = [userData EXCEPT ![c] = data]
          ELSE /\ cpc' = [cpc EXCEPT ![c] = "setUserData"]
               /\ userData' = [userData EXCEPT
                                 ![c] = addItems(parsed[c].items, 1, data)]
    /\ UNCHANGED <<stored, stored0, parsed, cfg, saved>>
    /\ UNCHANGED parseVars

\* telegram.js lines 93-104, redis.js setUserData: the local copy replaces
\* the whole document
SetUserData(c, ok) ==
    /\ cpc[c] = "setUserData"
    /\ stored' = IF ok THEN userData[c] ELSE stored
    /\ saved' = [saved EXCEPT ![c] = ok]
    /\ cpc' = [cpc EXCEPT ![c] = "done"]
    /\ UNCHANGED <<stored0, parsed, cfg, userData, readOk>>
    /\ UNCHANGED parseVars

\* no processExpense call is under way
ExpenseIdle ==
    /\ stored = EmptyDocument
    /\ stored0 = EmptyDocument
    /\ cpc = [c \in Calls |-> "done"]
    /\ parsed = [c \in Calls |-> NoOutcome]
    /\ cfg = [c \in Calls |-> "none"]
    /\ userData = [c \in Calls |-> EmptyDocument]
    /\ readOk = [c \in Calls |-> FALSE]
    /\ saved = [c \in Calls |-> FALSE]

\* two webhook invocations for the same chat enter processExpense
ExpenseInit ==
    /\ stored \in Documents
    /\ stored0 = stored
    /\ cpc = [c \in Calls |-> "parseInput"]
    /\ parsed = [c \in Calls |-> NoOutcome]
    /\ cfg = [c \in Calls |-> "none"]
    /\ userData = [c \in Calls |-> EmptyDocument]
    /\ readOk = [c \in Calls |-> FALSE]
    /\ saved = [c \in Calls |-> FALSE]
    /\ text = <<>>
    /\ config = {}
    /\ pc = "start"
    /\ fallbackResult = <<>>
    /\ fallbackRuns = 0
    /\ apiRequests = 0
    /\ timerArmed = FALSE
    /\ aborted = FALSE
    /\ body = NoBody
    /\ lastError = ""
    /\ outcome = NoOutcome

ExpenseNext ==
    \E c \in Calls :
      \/ \E r \in ParseOutcomes : ParseInput(c, r)
      \/ \E ok \in BOOLEAN : GetConfig(c, ok)
      \/ \E ok \in BOOLEAN : GetUserData(c, ok)
      \/ \E ok \in BOOLEAN : SetUserData(c, ok)

ExpenseSpec == ExpenseInit /\ [][ExpenseNext]_vars

-----------------------------------------------------------------------------
(* parseInput as a state machine *)

Init ==
    /\ ExpenseIdle
    /\ text \in Texts
    /\ config \in Catalogs
    /\ pc = "start"
    /\ fallbackResult = <<>>
    /\ fallbackRuns = 0
    /\ apiRequests = 0
    /\ timerArmed = FALSE
    /\ aborted = FALSE
    /\ body = NoBody
    /\ lastError = ""
    /\ outcome = NoOutcome

RecoveryInputsDefault == [text |-> text, availableItems |-> {}]

\* line 171: the arguments of the second fallbackParser call
RecoveryInputs == [text |-> text, availableItems |-> availableItems]

\* lines 168-177
Catch(error) ==
    LET again == fallbackParser(RecoveryInputs.text,
                                RecoveryInputs.availableItems)
    IN /\ lastError' = error
       /\ fallbackRuns' = fallbackRuns + 1
       /\ outcome' = IF Len(again) > 0 THEN Return(again)
                     ELSE Throw(TerminalError(error))
       /\ pc' = "done"

\* lines 56-129: first run of the extractor, then the request is issued
Start ==
    /\ pc = "start"
    /\ LET first == fallbackParser(text, availableItems)
       IN /\ fallbackResult' = first
          /\ fallbackRuns' = fallbackRuns + 1
          /\ IF UseFastPath(first)
             THEN /\ outcome' = Return(first)
                  /\ pc' = "done"
                  /\ UNCHANGED <<apiRequests, timerArmed>>
             ELSE /\ apiRequests' = apiRequests + 1
                  /\ timerArmed' = TRUE
                  /\ pc' = "awaitFetch"
                  /\ UNCHANGED outcome
    /\ UNCHANGED <<text, config, aborted, body, lastError>>

\* lines 129-135: the response headers arrive
FetchResponse(ok) ==
    /\ pc = "awaitFetch"
    /\ timerArmed' = FALSE
    /\ IF ok
       THEN /\ pc' = "awaitBody"
            /\ UNCHANGED <<fallbackRuns, lastError, outcome>>
       ELSE Catch("Gemini API error")
    /\ UNCHANGED <<text, config, fallbackResult, apiRequests, aborted, body>>

\* line 115: fetch rejects on a network error; the timer is not cleared
FetchReject ==
    /\ pc = "awaitFetch"
    /\ Catch("network error")
    /\ UNCHANGED <<text, config, fallbackResult, apiRequests, timerArmed,
                   aborted, body>>

\* line 113: the timer fires and aborts the controller
TimeoutFire ==
    /\ timerArmed
    /\ timerArmed' = FALSE
    /\ aborted' = TRUE
    /\ IF pc = "awaitFetch"
       THEN Catch("AbortError")
       ELSE UNCHANGED <<pc, fallbackRuns, lastError, outcome>>
    /\ UNCHANGED <<text, config, fallbackResult, apiRequests, body>>

\* lines 137-166: the body arrives and is parsed and validated
BodyArrive(b) ==
    /\ pc = "awaitBody"
    /\ body' = b
    /\ IF thrownBy(b) # ""
       THEN Catch(thrownBy(b))
       ELSE /\ outcome' = Return(filterItems(b.items, 1, availableItems))
            /\ pc' = "done"
            /\ UNCHANGED <<fallbackRuns, lastError>>
    /\ UNCHANGED <<text, config, fallbackResult, apiRequests, timerArmed, aborted>>

Next ==
    \/ Start /\ UNCHANGED expenseVars
    \/ \E ok \in BOOLEAN : FetchResponse(ok) /\ UNCHANGED expenseVars
    \/ FetchReject /\ UNCHANGED expenseVars
    \/ TimeoutFire /\ UNCHANGED expenseVars
    \/ \E b \in Bodies : BodyArrive(b) /\ UNCHANGED expenseVars

Spec == Init /\ [][Next]_vars

\* the timer and the continuations of parseInput run when enabled; the
\* remote server is under no obligation to answer
FairSpec ==
    /\ Init /\ [][Next]_vars
    /\ WF_vars(Start /\ UNCHANGED expenseVars)
    /\ WF_vars(TimeoutFire /\ UNCHANGED expenseVars)

TypeOK ==
    /\ pc \in {"start", "awaitFetch", "awaitBody", "done"}
    /\ apiRequests \in 0..1
    /\ fallbackRuns \in 0..2

-----------------------------------------------------------------------------
(* Vocabulary of the properties *)

EffectiveCatalog == IF config = {} THEN DefaultItems ELSE config

Started == pc # "start"

Returned == pc = "done" /\ outcome.kind = "return"

Failed == pc = "done" /\ outcome.kind = "throw"

ItemsOf(items) == { items[k].item : k \in 1..Len(items) }

DigitWs(i) == IsDigits(text[i]) /\ text[i].sep = "ws"

\* first run of the unbroken chain of whitespace-terminated digit runs
\* that ends at run i
ChainStart(i) ==
    CHOOSE s \in 1..i : /\ \A j \in s..i : DigitWs(j)
                        /\ s = 1 \/ ~DigitWs(s - 1)

\* run i is read as the quantity of run i + 1: in a chain of digit runs the
\* runs pair up from the left, so every second one is a quantity
IsCaptured(i) ==
    /\ i < Len(text)
    /\ DigitWs(i)
    /\ (i - ChainStart(i)) % 2 = 0

\* run i is an occurrence of item it
Mention(i, it) == ~IsCaptured(i) /\ Normalize(text[i].text) = it

\* the quantity of the occurrence at run i
MentionQty(i) ==
    IF i > 1 /\ IsCaptured(i - 1) THEN Num(Base10(text[i - 1].digits), 1)
    ELSE Num(1, 1)

\* an occurrence the extractor can accept: a catalog item, quantity not 0
Live(i, it) ==
    Mention(i, it) /\ it \in EffectiveCatalog /\ IsPositive(MentionQty(i))

FirstLive(i, it) == Live(i, it) /\ \A j \in 1..(i - 1) : ~Live(j, it)

Mentions(it) == { i \in 1..Len(text) : Mention(i, it) }

EntriesFor(items, it) == { k \in 1..Len(items) : items[k].item = it }

ParsedItem(it, q) == [item |-> it, quantity |-> q]

Contains(items, e) == \E k \in 1..Len(items) : items[k] = e

\* an entry of the response that meets every condition of the filter
IsValidEntry(e) ==
    /\ e.kind = "obj"
    /\ e.item # ""
    /\ e.qtype = "number"
    /\ IsPositive(e.quantity)
    /\ e.item \in config

ValidEntries(es) ==
    LET sel == SelectSeq(es, IsValidEntry)
    IN [k \in 1..Len(sel) |-> ParsedItem(sel[k].item, sel[k].quantity)]

-----------------------------------------------------------------------------
(* Claims *)

\* C1: when the first extractor run is empty and the LLM path fails or
\* yields an empty validated list, the extractor is re-run and an empty
\* re-run ends the call with the terminal error; parseInput never returns
\* an empty items list.
C1_RecoveryOrTerminal ==
    pc = "done" =>
      /\ outcome.kind = "return" => Len(outcome.items) > 0
      /\ fallbackResult = <<>> =>
           \/ fallbackRuns = 1 /\ outcome.kind = "return"
                               /\ Len(outcome.items) > 0
           \/ fallbackRuns = 2 /\ \/ outcome = Throw(ExtractionExhausted)
                                  \/ /\ outcome.kind = "return"
                                     /\ Len(outcome.items) > 0

\* C2: a non-empty first run of fallbackParser is returned as it is and no
\* request to the generative API is issued during the call.
C2_FastPathPrecedence ==
    (Started /\ fallbackResult # <<>>) =>
      /\ pc = "done"
      /\ outcome = Return(fallbackResult)
      /\ apiRequests = 0
      /\ body = NoBody

C2_Witness ==
    /\ pc = "done"
    /\ Len(fallbackResult) = 2
    /\ outcome = Return(fallbackResult)

\* C3: a response list that mixes valid and invalid entries does not fail
\* the call: every invalid entry is dropped and all valid ones are
\* returned.
C3_PermissiveDegradation ==
    (/\ pc = "done"
     /\ body.kind = "list"
     /\ \E k \in 1..Len(body.items) : IsValidEntry(body.items[k])
     /\ \E k \in 1..Len(body.items) : ~IsValidEntry(body.items[k]))
    => outcome = Return(ValidEntries(body.items))

\* C4: in every returned result each quantity is a positive integer and no
\* item name appears in more than one entry.
C4_ParsedItemInvariant ==
    Returned =>
      \A k \in 1..Len(outcome.items) :
        /\ IsPositive(outcome.items[k].quantity)
        /\ IsInteger(outcome.items[k].quantity)
        /\ \A j \in 1..Len(outcome.items) :
             outcome.items[j].item = outcome.items[k].item => j = k

\* C5: every entry of a returned result names a key of the effective
\* catalog.
C5_CatalogRestriction ==
    Returned => ItemsOf(outcome.items) \subseteq EffectiveCatalog

\* a result of the LLM path from which an entry was dropped only because
\* its item is not in the catalog
C5_Witness ==
    /\ Returned
    /\ body.kind = "list"
    /\ Len(outcome.items) > 0
    /\ \E k \in 1..Len(body.items) :
         /\ body.items[k].item # ""
         /\ body.items[k].qtype = "number"
         /\ IsPositive(body.items[k].quantity)
         /\ body.items[k].item \notin EffectiveCatalog

\* C6: parseInput ends with a result or with the fixed terminal error; the
\* error raised inside the try block is never the one the caller gets.
C6_OnlyExtractionExhausted ==
    pc = "done" =>
      \/ outcome.kind = "return"
      \/ /\ outcome = Throw(ExtractionExhausted)
         /\ outcome.error # lastError

C6_Witness == Failed /\ lastError = "TypeError"

\* C7 as stated: every catalog word of the text is in the extractor's
\* result, with quantity 1 when no number precedes it and with the positive
\* number written immediately before it otherwise; an item whose quantity
\* is <= 0 is absent.
C7_Original ==
    Started =>
      \A i \in 1..Len(text) :
        LET it == Normalize(text[i].text)
        IN (~IsDigits(text[i]) /\ it \in EffectiveCatalog) =>
             IF i > 1 /\ DigitWs(i - 1)
             THEN LET q == Num(Base10(text[i - 1].digits), 1)
                  IN IF IsPositive(q)
                     THEN Contains(fallbackResult, ParsedItem(it, q))
                     ELSE it \notin ItemsOf(fallbackResult)
             ELSE Contains(fallbackResult, ParsedItem(it, Num(1, 1)))

\* C7 amended: the first occurrence of a catalog item whose captured
\* quantity is absent or positive gives the item's entry, with quantity 1
\* when nothing was captured and the captured number otherwise; the result
\* holds nothing else, so an occurrence with captured quantity 0 gives no
\* entry.
C7_QuantityResolution ==
    Started =>
      /\ \A i \in 1..Len(text) :
           LET it == Normalize(text[i].text)
           IN FirstLive(i, it) =>
                Contains(fallbackResult, ParsedItem(it, MentionQty(i)))
      /\ \A k \in 1..Len(fallbackResult) :
           \E i \in 1..Len(text) :
             /\ FirstLive(i, fallbackResult[k].item)
             /\ fallbackResult[k].quantity = MentionQty(i)

\* "03 chai chips": a captured number and a defaulted quantity
C7_Witness ==
    /\ Started
    /\ fallbackResult = <<ParsedItem("chai", Num(3, 1)),
                          ParsedItem("chips", Num(1, 1))>>

\* C8 as stated: an item mentioned more than once, with any quantities,
\* has exactly one entry and its quantity is that of the first occurrence.
C8_Original ==
    Started =>
      \A it \in EffectiveCatalog :
        Cardinality(Mentions(it)) > 1 =>
          LET first == CHOOSE i \in Mentions(it) :
                         \A j \in Mentions(it) : i <= j
          IN /\ Cardinality(EntriesFor(fallbackResult, it)) = 1
             /\ Contains(fallbackResult, ParsedItem(it, MentionQty(first)))

\* C8 amended: an item mentioned more than once has at most one entry; it
\* is the entry of the first occurrence whose captured quantity is not 0,
\* and the item is absent when every occurrence has quantity 0.
C8_FirstOccurrenceWins ==
    Started =>
      \A it \in EffectiveCatalog :
        Cardinality(Mentions(it)) > 1 =>
          /\ Cardinality(EntriesFor(fallbackResult, it)) <= 1
          /\ \A i \in Mentions(it) :
               FirstLive(i, it) =>
                 /\ Contains(fallbackResult, ParsedItem(it, MentionQty(i)))
                 /\ Cardinality(EntriesFor(fallbackResult, it)) = 1
          /\ (\A i \in Mentions(it) : ~Live(i, it)) =>
               EntriesFor(fallbackResult, it) = {}

\* "2 chai Tea": the later occurrence, a synonym without a number, is dropped
C8_Witness ==
    /\ Started
    /\ Len(text) = 3
    /\ IsCaptured(1) /\ text[2].text = "chai" /\ text[3].text = "Tea"
    /\ Mentions("chai") = {2, 3}
    /\ MentionQty(2) = Num(2, 1) /\ MentionQty(3) = Num(1, 1)
    /\ fallbackResult = <<ParsedItem("chai", Num(2, 1))>>

\* C9: a call that reaches the LLM path issues at most one request and
\* eventually ends with a result or the terminal error; it is never left
\* pending.
C9_TimeoutTermination ==
    /\ [](apiRequests <= 1)
    /\ <>(pc = "done")

\* C10: with an empty catalog the five default names are the effective
\* catalog of the whole call: a default item with a positive quantity is
\* accepted by the extractor and by the filter of the LLM response.
C10_DefaultCatalog ==
    config = {} =>
      /\ Started =>
           \A i \in 1..Len(text) :
             LET it == Normalize(text[i].text)
             IN (it \in DefaultItems /\ FirstLive(i, it)) =>
                  it \in ItemsOf(fallbackResult)
      /\ (pc = "done" /\ body.kind = "list" /\ ~HasNull(body.items)) =>
           \A k \in 1..Len(body.items) :
             LET e == body.items[k]
             IN (/\ e.kind = "obj"
                 /\ e.item \in DefaultItems
                 /\ e.qtype = "number"
                 /\ IsPositive(e.quantity)) =>
                  /\ outcome.kind = "return"
                  /\ Contains(outcome.items, ParsedItem(e.item, e.quantity))

RECURSIVE AddedBy(_, _, _)
AddedBy(items, k, it) ==
    IF k > Len(items) THEN 0
    ELSE (IF items[k].item = it THEN items[k].quantity.n ELSE 0)
         + AddedBy(items, k + 1, it)

\* call c parsed to catalog items and every Redis command of it succeeded
CompletedOk(c) ==
    /\ cpc[c] = "done"
    /\ parsed[c].kind = "return"
    /\ Len(parsed[c].items) > 0
    /\ \A k \in 1..Len(parsed[c].items) : KnownItem(parsed[c].items[k].item)
    /\ cfg[c] = "config"
    /\ readOk[c]
    /\ saved[c]

\* C12: after two processExpense calls for the same chat that both parse
\* to known items and save successfully, however they interleave, each
\* stored total is the total before plus the quantities of both calls.
C12_NoLostUpdate ==
    (\A c \in Calls : CompletedOk(c)) =>
      \A it \in StoredItems :
        stored[it] = stored0[it] + AddedBy(parsed[1].items, 1, it)
                                 + AddedBy(parsed[2].items, 1, it)

=============================================================================
